---------------------------- MODULE Spec2Model ----------------------------
(***************************************************************************)
(* Model of src/ai/flows/analyze-loan-document.ts: the exported wrapper    *)
(* analyzeLoanDocument, the genkit flow analyzeLoanDocumentFlow with its   *)
(* input and output schemas, and the prompt template the flow hands to the *)
(* model.  Text (document text, error messages, the prompt) is a sequence  *)
(* of one-character strings, so that concatenation, containment and        *)
(* template substitution are computed rather than assumed.                 *)
(***************************************************************************)
EXTENDS Integers, Sequences, FiniteSets, TLC

VARIABLES
    pc,           \* pc[c]: where invocation c of analyzeLoanDocument stands
    input,        \* input[c]: the argument object of invocation c
    promptCalls,  \* promptCalls[c]: how often invocation c has called prompt(input)
    response,     \* response[c]: how the awaited prompt(input) settled for c
    caught,       \* caught[c]: the value bound to `error` in the catch clause
    returned,     \* returned[c]: the value the flow handler returned
    result,       \* result[c]: the value the promise of invocation c resolved to
    thrown,       \* thrown[c]: the error the promise of invocation c rejected with
    log,          \* log[c]: the console events invocation c has emitted, in order
    text,         \* the document text given to the prompt template
    rendered      \* the prompt text rendered from the template for `text`

flowVars == <<pc, input, promptCalls, response, caught, returned, result, thrown, log>>
renderVars == <<text, rendered>>
vars == <<pc, input, promptCalls, response, caught, returned, result, thrown, log,
          text, rendered>>

---------------------------------------------------------------------------
(* Bounds of the model *)

\* Number of invocations of analyzeLoanDocument that may be in flight together.
NumCalls == 2

\* Longest run of free characters placed in front of the filler of a document text.
MaxTail == 2

Calls == 1..NumCalls

---------------------------------------------------------------------------
(* Literals of the source *)

\* z.string().min(100)
MinTextLength == 100

\* Template text of lines 67-69, up to the start marker.
TemplateIntro ==
    <<"Y", "o", "u", " ", "a", "r", "e", " ", "a", "n", " ", "e", "x", "p", "e", "r", "t", " ",
      "l", "o", "a", "n", " ", "c", "o", "n", "t", "r", "a", "c", "t", " ", "a", "n", "a", "l",
      "y", "z", "e", "r", ".", " ", "Y", "o", "u", "r", " ", "t", "a", "s", "k", " ", "i", "s",
      " ", "t", "o", " ", "m", "e", "t", "i", "c", "u", "l", "o", "u", "s", "l", "y", " ", "r",
      "e", "v", "i", "e", "w", " ", "t", "h", "e", " ", "p", "r", "o", "v", "i", "d", "e", "d",
      " ", "l", "o", "a", "n", " ", "d", "o", "c", "u", "m", "e", "n", "t", " ", "t", "e", "x",
      "t", " ", "c", "o", "n", "t", "e", "n", "t", " ", "a", "n", "d", " ", "i", "d", "e", "n",
      "t", "i", "f", "y", " ", "p", "o", "t", "e", "n", "t", "i", "a", "l", " ", "r", "e", "d",
      " ", "f", "l", "a", "g", "s", ",", " ", "m", "a", "n", "i", "p", "u", "l", "a", "t", "i",
      "v", "e", " ", "t", "a", "c", "t", "i", "c", "s", ",", " ", "a", "n", "d", " ", "u", "n",
      "c", "l", "e", "a", "r", " ", "t", "e", "r", "m", "s", " ", "b", "a", "s", "e", "d", " ",
      "o", "n", " ", "t", "h", "e", " ", "s", "p", "e", "c", "i", "f", "i", "c", " ", "c", "r",
      "i", "t", "e", "r", "i", "a", " ", "l", "i", "s", "t", "e", "d", " ", "i", "n", " ", "t",
      "h", "e", " ", "o", "u", "t", "p", "u", "t", " ", "s", "c", "h", "e", "m", "a", ".",
      "\n", "\n", "A", "n", "a", "l", "y", "z", "e", " ", "t", "h", "e", " ", "f", "o", "l",
      "l", "o", "w", "i", "n", "g", " ", "l", "o", "a", "n", " ", "d", "o", "c", "u", "m", "e",
      "n", "t", " ", "t", "e", "x", "t", ":", "\n">>

\* The line "--- START DOCUMENT TEXT ---".
StartMarker ==
    <<"-", "-", "-", " ", "S", "T", "A", "R", "T", " ", "D", "O", "C", "U", "M", "E", "N", "T",
      " ", "T", "E", "X", "T", " ", "-", "-", "-">>

\* The line "--- END DOCUMENT TEXT ---".
EndMarker ==
    <<"-", "-", "-", " ", "E", "N", "D", " ", "D", "O", "C", "U", "M", "E", "N", "T", " ", "T",
      "E", "X", "T", " ", "-", "-", "-">>

\* Template text of lines 73-82, after the end marker.
TemplateInstructions ==
    <<"\n", "\n", "C", "a", "r", "e", "f", "u", "l", "l", "y", " ", "e", "v", "a", "l", "u",
      "a", "t", "e", " ", "t", "h", "e", " ", "t", "e", "x", "t", " ", "a", "g", "a", "i", "n",
      "s", "t", " ", "e", "a", "c", "h", " ", "f", "i", "e", "l", "d", " ", "i", "n", " ", "t",
      "h", "e", " ", "o", "u", "t", "p", "u", "t", " ", "s", "c", "h", "e", "m", "a", ".", " ",
      "F", "o", "r", " ", "e", "a", "c", "h", " ", "b", "o", "o", "l", "e", "a", "n", " ", "f",
      "i", "e", "l", "d", ",", " ", "d", "e", "t", "e", "r", "m", "i", "n", "e", " ", "i", "f",
      " ", "t", "h", "e", " ", "c", "o", "n", "d", "i", "t", "i", "o", "n", " ", "i", "s", " ",
      "m", "e", "t", " ", "b", "a", "s", "e", "d", " ", "*", "o", "n", "l", "y", "*", " ", "o",
      "n", " ", "t", "h", "e", " ", "p", "r", "o", "v", "i", "d", "e", "d", " ", "t", "e", "x",
      "t", ".", " ", "I", "f", " ", "t", "h", "e", " ", "t", "e", "x", "t", " ", "d", "o", "e",
      "s", "n", "'", "t", " ", "p", "r", "o", "v", "i", "d", "e", " ", "e", "n", "o", "u", "g",
      "h", " ", "i", "n", "f", "o", "r", "m", "a", "t", "i", "o", "n", " ", "f", "o", "r", " ",
      "a", " ", "b", "o", "o", "l", "e", "a", "n", " ", "f", "i", "e", "l", "d", " ", "(", "e",
      "s", "p", "e", "c", "i", "a", "l", "l", "y", " ", "o", "p", "t", "i", "o", "n", "a", "l",
      " ", "o", "n", "e", "s", " ", "l", "i", "k", "e", " ", "'", "r", "e", "g", "u", "l", "a",
      "t", "o", "r", "y", "_", "r", "e", "g", "i", "s", "t", "r", "a", "t", "i", "o", "n", "_",
      "s", "t", "a", "t", "u", "s", "'", " ", "o", "r", " ", "'", "l", "o", "a", "n", "_", "a",
      "p", "p", "_", "a", "u", "t", "h", "e", "n", "t", "i", "c", "i", "t", "y", "_", "v", "e",
      "r", "i", "f", "i", "e", "d", "'", ")", ",", " ", "d", "e", "t", "e", "r", "m", "i", "n",
      "e", " ", "t", "h", "e", " ", "m", "o", "s", "t", " ", "l", "i", "k", "e", "l", "y", " ",
      "v", "a", "l", "u", "e", " ", "o", "r", " ", "d", "e", "f", "a", "u", "l", "t", " ", "t",
      "o", " ", "f", "a", "l", "s", "e", "/", "n", "u", "l", "l", " ", "i", "f", " ", "i", "n",
      "f", "e", "r", "e", "n", "c", "e", " ", "i", "s", " ", "n", "o", "t", " ", "p", "o", "s",
      "s", "i", "b", "l", "e", ".", " ", "F", "o", "r", " ", "t", "e", "x", "t", " ", "f", "i",
      "e", "l", "d", "s", " ", "l", "i", "k", "e", " ", "'", "l", "o", "a", "n", "_", "d", "i",
      "s", "b", "u", "r", "s", "e", "m", "e", "n", "t", "_", "m", "e", "t", "h", "o", "d", "'",
      ",", " ", "e", "x", "t", "r", "a", "c", "t", " ", "t", "h", "e", " ", "r", "e", "l", "e",
      "v", "a", "n", "t", " ", "i", "n", "f", "o", "r", "m", "a", "t", "i", "o", "n", " ", "i",
      "f", " ", "p", "r", "e", "s", "e", "n", "t", ".", "\n", "\n", "F", "o", "r", " ", "t",
      "h", "e", " ", "'", "d", "e", "t", "a", "i", "l", "e", "d", "_", "a", "n", "a", "l", "y",
      "s", "i", "s", "'", " ", "a", "r", "r", "a", "y", ":", "\n", "-", " ", "F", "o", "r",
      " ", "e", "a", "c", "h", " ", "c", "h", "e", "c", "k", " ", "(", "c", "o", "r", "r", "e",
      "s", "p", "o", "n", "d", "i", "n", "g", " ", "t", "o", " ", "t", "h", "e", " ", "k", "e",
      "y", "s", " ", "i", "n", " ", "t", "h", "e", " ", "o", "u", "t", "p", "u", "t", " ", "s",
      "c", "h", "e", "m", "a", ")", ",", " ", "p", "r", "o", "v", "i", "d", "e", " ", "a", " ",
      "b", "r", "i", "e", "f", " ", "'", "f", "i", "n", "d", "i", "n", "g", "'", " ", "e", "x",
      "p", "l", "a", "i", "n", "i", "n", "g", " ", "t", "h", "e", " ", "r", "e", "a", "s", "o",
      "n", "i", "n", "g", " ", "o", "r", " ", "q", "u", "o", "t", "i", "n", "g", " ", "r", "e",
      "l", "e", "v", "a", "n", "t", " ", "t", "e", "x", "t", " ", "s", "n", "i", "p", "p", "e",
      "t", "s", ".", "\n", "-", " ", "I", "n", "d", "i", "c", "a", "t", "e", " ", "i", "f",
      " ", "t", "h", "e", " ", "f", "i", "n", "d", "i", "n", "g", " ", "i", "s", " ", "g", "e",
      "n", "e", "r", "a", "l", "l", "y", " ", "c", "o", "n", "s", "i", "d", "e", "r", "e", "d",
      " ", "a", " ", "'", "i", "s", "_", "r", "e", "d", "_", "f", "l", "a", "g", "'", " ", "(",
      "t", "r", "u", "e", " ", "i", "f", " ", "i", "t", "'", "s", " ", "a", " ", "p", "o", "t",
      "e", "n", "t", "i", "a", "l", " ", "n", "e", "g", "a", "t", "i", "v", "e", " ", "f", "o",
      "r", " ", "t", "h", "e", " ", "b", "o", "r", "r", "o", "w", "e", "r", ",", " ", "f", "a",
      "l", "s", "e", " ", "o", "r", " ", "o", "m", "i", "t", " ", "o", "t", "h", "e", "r", "w",
      "i", "s", "e", ")", ".", "\n", "\n", "F", "o", "r", " ", "t", "h", "e", " ", "'", "o",
      "v", "e", "r", "a", "l", "l", "_", "s", "u", "m", "m", "a", "r", "y", "'", ",", " ", "s",
      "y", "n", "t", "h", "e", "s", "i", "z", "e", " ", "y", "o", "u", "r", " ", "f", "i", "n",
      "d", "i", "n", "g", "s", " ", "i", "n", "t", "o", " ", "a", " ", "c", "o", "n", "c", "i",
      "s", "e", " ", "p", "a", "r", "a", "g", "r", "a", "p", "h", " ", "h", "i", "g", "h", "l",
      "i", "g", "h", "t", "i", "n", "g", " ", "t", "h", "e", " ", "m", "o", "s", "t", " ", "c",
      "r", "i", "t", "i", "c", "a", "l", " ", "r", "e", "d", " ", "f", "l", "a", "g", "s", " ",
      "(", "e", ".", "g", ".", ",", " ", "h", "i", "d", "d", "e", "n", " ", "f", "e", "e", "s",
      ",", " ", "c", "o", "m", "p", "l", "e", "x", " ", "l", "a", "n", "g", "u", "a", "g", "e",
      ",", " ", "p", "r", "e", "s", "s", "u", "r", "e", " ", "t", "a", "c", "t", "i", "c", "s",
      ")", " ", "o", "r", " ", "p", "o", "s", "i", "t", "i", "v", "e", " ", "a", "s", "p", "e",
      "c", "t", "s", " ", "(", "e", ".", "g", ".", ",", " ", "c", "l", "e", "a", "r", " ", "t",
      "e", "r", "m", "s", ",", " ", "c", "o", "n", "s", "u", "m", "e", "r", " ", "r", "i", "g",
      "h", "t", "s", " ", "m", "e", "n", "t", "i", "o", "n", "e", "d", ")", ".", " ", "F", "o",
      "c", "u", "s", " ", "o", "n", " ", "a", "c", "t", "i", "o", "n", "a", "b", "l", "e", " ",
      "i", "n", "s", "i", "g", "h", "t", "s", " ", "f", "o", "r", " ", "t", "h", "e", " ", "u",
      "s", "e", "r", ".", "\n", "\n", "P", "r", "o", "v", "i", "d", "e", " ", "y", "o", "u",
      "r", " ", "a", "n", "a", "l", "y", "s", "i", "s", " ", "s", "t", "r", "i", "c", "t", "l",
      "y", " ", "i", "n", " ", "t", "h", "e", " ", "r", "e", "q", "u", "e", "s", "t", "e", "d",
      " ", "J", "S", "O", "N", " ", "f", "o", "r", "m", "a", "t", " ", "m", "a", "t", "c", "h",
      "i", "n", "g", " ", "t", "h", "e", " ", "o", "u", "t", "p", "u", "t", " ", "s", "c", "h",
      "e", "m", "a", ".">>

\* 'AI analysis failed to generate a response.'
NoResponseMessage ==
    <<"A", "I", " ", "a", "n", "a", "l", "y", "s", "i", "s", " ", "f", "a", "i", "l", "e", "d",
      " ", "t", "o", " ", "g", "e", "n", "e", "r", "a", "t", "e", " ", "a", " ", "r", "e", "s",
      "p", "o", "n", "s", "e", ".">>

\* 'Failed to analyze loan document: '
FailedPrefix ==
    <<"F", "a", "i", "l", "e", "d", " ", "t", "o", " ", "a", "n", "a", "l", "y", "z", "e", " ",
      "l", "o", "a", "n", " ", "d", "o", "c", "u", "m", "e", "n", "t", ":", " ">>

\* 'Unknown AI Error'
UnknownAIError ==
    <<"U", "n", "k", "n", "o", "w", "n", " ", "A", "I", " ", "E", "r", "r", "o", "r">>

\* "boom"
Boom ==
    <<"b", "o", "o", "m">>

\* "Request timed out"
TimedOut ==
    <<"R", "e", "q", "u", "e", "s", "t", " ", "t", "i", "m", "e", "d", " ", "o", "u", "t">>

---------------------------------------------------------------------------
(* Text helpers *)

\* pat occurs in s starting at index i
OccursAt(s, pat, i) ==
    /\ i >= 1
    /\ i + Len(pat) - 1 <= Len(s)
    /\ \A k \in 1..Len(pat) : s[i + k - 1] = pat[k]

\* String.prototype.includes
Contains(s, pat) == \E i \in 1..(Len(s) + 1) : OccursAt(s, pat, i)

StartsWith(s, pat) == OccursAt(s, pat, 1)

\* A run of n filler characters.
Pad(n) == [i \in 1..n |-> "x"]

\* Characters a document text may carry besides filler: a letter, the two
\* characters an HTML-escaping substitution would rewrite, and a line break.
Alphabet == {"a", "&", "<", "\n"}

RECURSIVE TextsUpTo(_)
TextsUpTo(n) ==
    IF n = 0 THEN {<<>>}
    ELSE LET shorter == TextsUpTo(n - 1)
         IN  shorter \cup {<<ch>> \o t : ch \in Alphabet, t \in {u \in shorter : Len(u) = n - 1}}

\* Document texts for the template: lengths on both sides of MinTextLength.
DocumentTexts ==
    {t \o Pad(n) : t \in TextsUpTo(MaxTail),
                   n \in (MinTextLength - MaxTail - 1)..MinTextLength}

\* Document texts given to the flow: empty, one short of the minimum, the
\* minimum, and longer than the minimum.
FlowTexts ==
    {<<>>, Pad(MinTextLength - 1), Pad(MinTextLength), <<"&">> \o Pad(MinTextLength)}

---------------------------------------------------------------------------
(* Schemas *)

\* The input schema with the minimum length left out: z.string()
MatchesInputSchemaNoMin(in) ==
    "pdfTextContent" \in DOMAIN in

\* AnalyzeLoanDocumentInputSchema: { pdfTextContent: z.string().min(100) }
MatchesInputSchema(in) ==
    /\ "pdfTextContent" \in DOMAIN in
    /\ Len(in.pdfTextContent) >= MinTextLength

RequiredBooleans ==
    {"use_of_urgent_language", "emotional_appeals", "hidden_conditions_detected",
     "complex_language_used", "aggressive_marketing_detected",
     "phishing_indicators_present", "disclosure_of_total_cost",
     "consumer_rights_info_provided", "grace_period_provided",
     "early_repayment_penalty_present", "rollover_clauses_detected",
     "dynamic_interest_rate_clause"}

OptionalBooleans ==
    {"loan_app_authenticity_verified", "suspicious_permissions_requested",
     "regulatory_registration_status", "user_felt_pressured_to_accept",
     "user_understood_terms_before_accepting"}

OptionalStrings == {"loan_disbursement_method", "repayment_method"}

\* Element schema of detailed_analysis.
MatchesFindingSchema(f) ==
    /\ {"flag_key", "finding"} \subseteq DOMAIN f
    /\ f.flag_key \in STRING
    /\ f.finding \in STRING
    /\ "is_red_flag" \in DOMAIN f => f.is_red_flag \in BOOLEAN

\* AnalyzeLoanDocumentOutputSchema
MatchesOutputSchema(o) ==
    /\ RequiredBooleans \cup {"overall_summary", "detailed_analysis"} \subseteq DOMAIN o
    /\ \A k \in RequiredBooleans : o[k] \in BOOLEAN
    /\ \A k \in OptionalBooleans \cap DOMAIN o : o[k] \in BOOLEAN
    /\ \A k \in OptionalStrings \cap DOMAIN o : o[k] \in STRING
    /\ o.overall_summary \in STRING
    /\ \A i \in DOMAIN o.detailed_analysis : MatchesFindingSchema(o.detailed_analysis[i])

---------------------------------------------------------------------------
(* What the model endpoint may answer *)

\* JavaScript null.
Null == [type |-> "null"]

\* An analysis with the required fields only, nothing flagged.
CleanOutput ==
    [k \in RequiredBooleans |-> k \in {"disclosure_of_total_cost",
                                       "consumer_rights_info_provided",
                                       "grace_period_provided"}]
    @@ [overall_summary |-> "No major red flags detected.",
        detailed_analysis |-> <<>>]

\* An analysis that flags urgent language, with optional fields and findings.
UrgentOutput ==
    [k \in RequiredBooleans |-> k \in {"use_of_urgent_language", "emotional_appeals"}]
    @@ [k \in OptionalBooleans |-> k = "user_felt_pressured_to_accept"]
    @@ [loan_disbursement_method |-> "Bank Transfer",
        repayment_method |-> "Auto-debit",
        overall_summary |-> "Urgent language pressures the borrower.",
        detailed_analysis |->
            <<[flag_key |-> "use_of_urgent_language",
               finding |-> "Detected phrase: act now, limited time offer",
               is_red_flag |-> TRUE],
              [flag_key |-> "grace_period_provided",
               finding |-> "No grace period mentioned"]>>]

\* An object the model may produce that lacks the required overall_summary.
IncompleteOutput ==
    [k \in RequiredBooleans |-> FALSE] @@ [detailed_analysis |-> <<>>]

\* Values `output` may hold after `const { output } = await prompt(input)`.
PromptOutputs == {CleanOutput, UrgentOutput, IncompleteOutput, Null}

\* new Error(message)
NewError(message) == [name |-> "Error", message |-> message]

\* Errors the awaited prompt call may reject with: with a message, with an
\* empty message, and an error object that carries no message property.
PromptErrors ==
    {NewError(Boom), NewError(TimedOut), NewError(<<>>), [name |-> "Error"]}

\* The error the flow wrapper raises when a value fails the named schema.
SchemaError(which) ==
    [name |-> "GenkitError", status |-> "INVALID_ARGUMENT", schema |-> which]

Pending == [kind |-> "pending"]
Resolved(o) == [kind |-> "resolved", output |-> o]
Rejected(e) == [kind |-> "rejected", error |-> e]

None == [kind |-> "none"]

---------------------------------------------------------------------------
(* The prompt template *)

Lit(chars) == [kind |-> "literal", chars |-> chars]
TripleStash(name) == [kind |-> "raw", name |-> name]

\* The template of definePrompt: literal text around the one expression
\* {{{pdfTextContent}}}, which stands on a line of its own between the markers.
PromptTemplate ==
    << Lit(TemplateIntro \o StartMarker \o <<"\n">>),
       TripleStash("pdfTextContent"),
       Lit(<<"\n">> \o EndMarker \o TemplateInstructions) >>

\* Handlebars.escapeExpression on one character
EscapeChar(ch) ==
    CASE ch = "&" -> <<"&", "a", "m", "p", ";">>
      [] ch = "<" -> <<"&", "l", "t", ";">>
      [] OTHER    -> <<ch>>

RECURSIVE EscapeExpression(_)
EscapeExpression(s) ==
    IF s = <<>> THEN <<>> ELSE EscapeChar(Head(s)) \o EscapeExpression(Tail(s))

\* The expression written {{pdfTextContent}}: the value HTML-escaped.
RenderSegmentEscaped(seg, in) ==
    IF seg.kind = "literal" THEN seg.chars ELSE EscapeExpression(in[seg.name])

\* A triple-stash expression yields the named value as it is.
RenderSegment(seg, in) ==
    IF seg.kind = "literal" THEN seg.chars ELSE in[seg.name]

RECURSIVE RenderFrom(_, _, _)
RenderFrom(template, in, i) ==
    IF i > Len(template) THEN <<>>
    ELSE RenderSegment(template[i], in) \o RenderFrom(template, in, i + 1)

\* The prompt text for an input object.
RenderPrompt(in) == RenderFrom(PromptTemplate, in, 1)

---------------------------------------------------------------------------
(* Console events *)

LogCallingFlow(n) ==
    [level |-> "log", tag |-> "[analyzeLoanDocument] Calling flow with text length:",
     arg |-> n]
LogAnalyzing ==
    [level |-> "log", tag |-> "[analyzeLoanDocumentFlow] Analyzing text content..."]
LogNoValidOutput ==
    [level |-> "error", tag |-> "[analyzeLoanDocumentFlow] AI did not return a valid output."]
LogSuccessful ==
    [level |-> "log", tag |-> "[analyzeLoanDocumentFlow] Analysis successful."]
LogErrorDuring(e) ==
    [level |-> "error", tag |-> "[analyzeLoanDocumentFlow] Error during AI analysis:",
     err |-> e]

Emit(c, ev) == log' = [log EXCEPT ![c] = Append(@, ev)]

\* The catch clause discarding the upstream message.
MessageDiscarded(e) == UnknownAIError

\* `${error.message}` with no fallback: an absent message prints as undefined.
MessageNoFallback(e) ==
    IF "message" \in DOMAIN e THEN e.message
    ELSE <<"u", "n", "d", "e", "f", "i", "n", "e", "d">>

\* error.message || 'Unknown AI Error'
MessageOrDefault(e) ==
    IF "message" \in DOMAIN e /\ e.message # <<>> THEN e.message ELSE UnknownAIError

\* !output
Falsy(o) == o = Null

---------------------------------------------------------------------------
(* Initial state *)

InitFlow ==
    /\ pc = [c \in Calls |-> "idle"]
    /\ input = [c \in Calls |-> None]
    /\ promptCalls = [c \in Calls |-> 0]
    /\ response = [c \in Calls |-> Pending]
    /\ caught = [c \in Calls |-> None]
    /\ returned = [c \in Calls |-> None]
    /\ result = [c \in Calls |-> None]
    /\ thrown = [c \in Calls |-> None]
    /\ log = [c \in Calls |-> <<>>]

Init ==
    /\ InitFlow
    /\ text = <<>>
    /\ rendered = <<>>

---------------------------------------------------------------------------
(* analyzeLoanDocument and analyzeLoanDocumentFlow *)

\* analyzeLoanDocument(input): log the text length, then call the flow.
Call(c, t) ==
    /\ pc[c] = "idle"
    /\ input' = [input EXCEPT ![c] = [pdfTextContent |-> t]]
    /\ Emit(c, LogCallingFlow(Len(t)))
    /\ pc' = [pc EXCEPT ![c] = "flow"]
    /\ UNCHANGED <<promptCalls, response, caught, returned, result, thrown>>
    /\ UNCHANGED renderVars

\* The flow checks its argument against inputSchema before running the handler.
FlowValidateInput(c) ==
    /\ pc[c] = "flow"
    /\ IF MatchesInputSchema(input[c])
       THEN /\ pc' = [pc EXCEPT ![c] = "handler"]
            /\ UNCHANGED thrown
       ELSE /\ thrown' = [thrown EXCEPT ![c] = SchemaError("input")]
            /\ pc' = [pc EXCEPT ![c] = "done"]
    /\ UNCHANGED <<input, promptCalls, response, caught, returned, result, log>>
    /\ UNCHANGED renderVars

\* The handler up to its await: the entry log, then prompt(input).
HandlerStart(c) ==
    /\ pc[c] = "handler"
    /\ Emit(c, LogAnalyzing)
    /\ promptCalls' = [promptCalls EXCEPT ![c] = @ + 1]
    /\ pc' = [pc EXCEPT ![c] = "awaiting"]
    /\ UNCHANGED <<input, response, caught, returned, result, thrown>>
    /\ UNCHANGED renderVars

\* The awaited prompt call resolves; `output` is o.
PromptResolves(c, o) ==
    /\ pc[c] = "awaiting"
    /\ response' = [response EXCEPT ![c] = Resolved(o)]
    /\ pc' = [pc EXCEPT ![c] = "resumed"]
    /\ UNCHANGED <<input, promptCalls, caught, returned, result, thrown, log>>
    /\ UNCHANGED renderVars

\* The awaited prompt call rejects with e; control enters the catch clause.
PromptRejects(c, e) ==
    /\ pc[c] = "awaiting"
    /\ response' = [response EXCEPT ![c] = Rejected(e)]
    /\ caught' = [caught EXCEPT ![c] = e]
    /\ pc' = [pc EXCEPT ![c] = "catch"]
    /\ UNCHANGED <<input, promptCalls, returned, result, thrown, log>>
    /\ UNCHANGED renderVars

\* The handler post-processing its result: the optional text fields are dropped.
HandlerCheckOutputPostProcessed(c) ==
    /\ pc[c] = "resumed"
    /\ IF Falsy(response[c].output)
       THEN /\ Emit(c, LogNoValidOutput)
            /\ caught' = [caught EXCEPT ![c] = NewError(NoResponseMessage)]
            /\ pc' = [pc EXCEPT ![c] = "catch"]
            /\ UNCHANGED returned
       ELSE /\ Emit(c, LogSuccessful)
            /\ returned' = [returned EXCEPT ![c] =
                   [k \in DOMAIN response[c].output \ OptionalStrings |->
                       response[c].output[k]]]
            /\ pc' = [pc EXCEPT ![c] = "returning"]
            /\ UNCHANGED caught
    /\ UNCHANGED <<input, promptCalls, response, result, thrown>>
    /\ UNCHANGED renderVars

\* The handler without its `if (!output)` test: whatever came back is returned.
HandlerCheckOutputNoNullCheck(c) ==
    /\ pc[c] = "resumed"
    /\ Emit(c, LogSuccessful)
    /\ returned' = [returned EXCEPT ![c] = response[c].output]
    /\ pc' = [pc EXCEPT ![c] = "returning"]
    /\ UNCHANGED <<input, promptCalls, response, caught, result, thrown>>
    /\ UNCHANGED renderVars

\* The handler keeping `output` in a module-level variable that every
\* invocation writes: a resumed invocation reads what the first resumed one stored.
HandlerCheckOutputShared(c) ==
    /\ pc[c] = "resumed"
    /\ LET d == CHOOSE d \in Calls :
                   /\ pc[d] = "resumed"
                   /\ \A e \in Calls : pc[e] = "resumed" => d <= e
           output == response[d].output
       IN  IF Falsy(output)
           THEN /\ Emit(c, LogNoValidOutput)
                /\ caught' = [caught EXCEPT ![c] = NewError(NoResponseMessage)]
                /\ pc' = [pc EXCEPT ![c] = "catch"]
                /\ UNCHANGED returned
           ELSE /\ Emit(c, LogSuccessful)
                /\ returned' = [returned EXCEPT ![c] = output]
                /\ pc' = [pc EXCEPT ![c] = "returning"]
                /\ UNCHANGED caught
    /\ UNCHANGED <<input, promptCalls, response, result, thrown>>
    /\ UNCHANGED renderVars

\* The handler logging success before it tests `output`.
HandlerCheckOutputLogsFirst(c) ==
    /\ pc[c] = "resumed"
    /\ IF Falsy(response[c].output)
       THEN /\ log' = [log EXCEPT ![c] = @ \o <<LogSuccessful, LogNoValidOutput>>]
            /\ caught' = [caught EXCEPT ![c] = NewError(NoResponseMessage)]
            /\ pc' = [pc EXCEPT ![c] = "catch"]
            /\ UNCHANGED returned
       ELSE /\ Emit(c, LogSuccessful)
            /\ returned' = [returned EXCEPT ![c] = response[c].output]
            /\ pc' = [pc EXCEPT ![c] = "returning"]
            /\ UNCHANGED caught
    /\ UNCHANGED <<input, promptCalls, response, result, thrown>>
    /\ UNCHANGED renderVars

\* if (!output) { console.error; throw } else { console.log; return output }
HandlerCheckOutput(c) ==
    /\ pc[c] = "resumed"
    /\ IF Falsy(response[c].output)
       THEN /\ Emit(c, LogNoValidOutput)
            /\ caught' = [caught EXCEPT ![c] = NewError(NoResponseMessage)]
            /\ pc' = [pc EXCEPT ![c] = "catch"]
            /\ UNCHANGED returned
       ELSE /\ Emit(c, LogSuccessful)
            /\ returned' = [returned EXCEPT ![c] = response[c].output]
            /\ pc' = [pc EXCEPT ![c] = "returning"]
            /\ UNCHANGED caught
    /\ UNCHANGED <<input, promptCalls, response, result, thrown>>
    /\ UNCHANGED renderVars

\* The catch clause trying the prompt once more before it gives up.
HandlerCatchRetry(c) ==
    /\ pc[c] = "catch"
    /\ Emit(c, LogErrorDuring(caught[c]))
    /\ IF promptCalls[c] < 2
       THEN /\ pc' = [pc EXCEPT ![c] = "handler"]
            /\ UNCHANGED thrown
       ELSE /\ thrown' = [thrown EXCEPT ![c] =
                            NewError(FailedPrefix \o MessageOrDefault(caught[c]))]
            /\ pc' = [pc EXCEPT ![c] = "done"]
    /\ UNCHANGED <<input, promptCalls, response, caught, returned, result>>
    /\ UNCHANGED renderVars

\* The catch clause answering with an empty analysis instead of rethrowing.
HandlerCatchFallback(c) ==
    /\ pc[c] = "catch"
    /\ Emit(c, LogErrorDuring(caught[c]))
    /\ returned' = [returned EXCEPT ![c] = CleanOutput]
    /\ pc' = [pc EXCEPT ![c] = "returning"]
    /\ UNCHANGED <<input, promptCalls, response, caught, result, thrown>>
    /\ UNCHANGED renderVars

\* catch (error) { console.error; throw new Error(`Failed to analyze ...`) }
HandlerCatch(c) ==
    /\ pc[c] = "catch"
    /\ Emit(c, LogErrorDuring(caught[c]))
    /\ thrown' = [thrown EXCEPT ![c] =
                     NewError(FailedPrefix \o MessageOrDefault(caught[c]))]
    /\ pc' = [pc EXCEPT ![c] = "done"]
    /\ UNCHANGED <<input, promptCalls, response, caught, returned, result>>
    /\ UNCHANGED renderVars

\* The flow checks the handler's return value against outputSchema and
\* settles the promise the wrapper returned.
FlowValidateOutput(c) ==
    /\ pc[c] = "returning"
    /\ IF MatchesOutputSchema(returned[c])
       THEN /\ result' = [result EXCEPT ![c] = returned[c]]
            /\ UNCHANGED thrown
       ELSE /\ thrown' = [thrown EXCEPT ![c] = SchemaError("output")]
            /\ UNCHANGED result
    /\ pc' = [pc EXCEPT ![c] = "done"]
    /\ UNCHANGED <<input, promptCalls, response, caught, returned, log>>
    /\ UNCHANGED renderVars

Next ==
    \/ \E c \in Calls, t \in FlowTexts : Call(c, t)
    \/ \E c \in Calls : FlowValidateInput(c)
    \/ \E c \in Calls : HandlerStart(c)
    \/ \E c \in Calls, o \in PromptOutputs : PromptResolves(c, o)
    \/ \E c \in Calls, e \in PromptErrors : PromptRejects(c, e)
    \/ \E c \in Calls : HandlerCheckOutput(c)
    \/ \E c \in Calls : HandlerCatch(c)
    \/ \E c \in Calls : FlowValidateOutput(c)

Spec == Init /\ [][Next]_vars

---------------------------------------------------------------------------
(* The prompt template on its own: every document text, rendered *)

InitRender ==
    /\ InitFlow
    /\ text \in DocumentTexts
    /\ rendered = <<>>

\* The prompt renders its template for an input its schema accepts.
Render ==
    /\ rendered = <<>>
    /\ MatchesInputSchema([pdfTextContent |-> text])
    /\ rendered' = RenderPrompt([pdfTextContent |-> text])
    /\ UNCHANGED text
    /\ UNCHANGED flowVars

NextRender == Render

SpecRender == InitRender /\ [][NextRender]_vars

---------------------------------------------------------------------------
(* Properties *)

Done(c) == pc[c] = "done"
Started(c) == pc[c] # "idle"
TextOf(c) == input[c].pdfTextContent
TooShort(c) == Started(c) /\ Len(TextOf(c)) < MinTextLength
LongEnough(c) == Started(c) /\ Len(TextOf(c)) >= MinTextLength
ReturnedNull(c) == response[c] = Resolved(Null)
ReturnedObject(c) == response[c].kind = "resolved" /\ response[c].output # Null
Raised(c) == response[c].kind = "rejected"
HasMessage(e) == "message" \in DOMAIN e /\ e.message # <<>>
Tags(c) == {log[c][i].tag : i \in DOMAIN log[c]}
FailureTags == {LogNoValidOutput.tag, LogErrorDuring(None).tag}

\* C1: an invocation whose pdfTextContent is shorter than 100 characters never
\* reaches the handler, never calls the prompt, and ends only by raising the
\* input-schema validation error, with no result.
C1_ShortInputRejectedBeforePrompt ==
    \A c \in Calls :
        TooShort(c) =>
            /\ pc[c] \in {"flow", "done"}
            /\ promptCalls[c] = 0
            /\ response[c] = Pending
            /\ result[c] = None
            /\ Done(c) <=> thrown[c] = SchemaError("input")

C1_Witness ==
    \E c \in Calls :
        /\ Done(c)
        /\ Len(TextOf(c)) = MinTextLength - 1
        /\ thrown[c] = SchemaError("input")
        /\ promptCalls[c] = 0

\* C2: for a valid input, when the prompt resolves with a non-null object that
\* matches the output schema, the invocation resolves to exactly that object
\* (same fields, same values) and raises nothing.
C2_OutputReturnedUnchanged ==
    \A c \in Calls :
        (Done(c) /\ LongEnough(c) /\ ReturnedObject(c)
            /\ MatchesOutputSchema(response[c].output)) =>
            /\ result[c] = response[c].output
            /\ DOMAIN result[c] = DOMAIN response[c].output
            /\ thrown[c] = None

C2_Witness ==
    \E c \in Calls :
        /\ Done(c)
        /\ LongEnough(c)
        /\ response[c] = Resolved(UrgentOutput)
        /\ result[c] = UrgentOutput

\* C3: for a valid input, when the prompt resolves with a null output, the
\* invocation raises (it resolves to no value) an error whose message is one
\* fixed text, whatever the input: the failure prefix followed by
\* 'AI analysis failed to generate a response.'.
C3_NullOutputRaisesFixedMessage ==
    \A c \in Calls :
        (Done(c) /\ LongEnough(c) /\ ReturnedNull(c)) =>
            /\ result[c] = None
            /\ thrown[c] = NewError(FailedPrefix \o NoResponseMessage)

C3_Witness ==
    \E c \in Calls :
        /\ Done(c)
        /\ Len(TextOf(c)) > MinTextLength
        /\ ReturnedNull(c)
        /\ thrown[c] # None

\* C4: for a valid input, when the prompt rejects with an error whose message m
\* is non-empty, the invocation raises an error whose message contains m.
C4_UpstreamMessagePreserved ==
    \A c \in Calls :
        (Done(c) /\ LongEnough(c) /\ Raised(c) /\ HasMessage(response[c].error)) =>
            /\ result[c] = None
            /\ thrown[c] # None
            /\ "message" \in DOMAIN thrown[c]
            /\ Contains(thrown[c].message, response[c].error.message)

C4_Witness ==
    \E c \in Calls :
        /\ Done(c)
        /\ response[c] = Rejected(NewError(Boom))
        /\ Contains(thrown[c].message, Boom)

\* C5 (state part): an invocation calls the prompt at most once, exactly once
\* by the time it has gone past input validation, and not at all for an
\* input that is too short.
C5_AtMostOnce ==
    \A c \in Calls :
        /\ promptCalls[c] <= 1
        /\ (LongEnough(c) /\ pc[c] \notin {"flow", "handler"}) => promptCalls[c] = 1
        /\ TooShort(c) => promptCalls[c] = 0

\* C5 (step part): once the prompt has rejected or resolved with a null output,
\* no step of that invocation calls it again.
C5_NoRetryStep ==
    \A c \in Calls :
        (Raised(c) \/ ReturnedNull(c)) => promptCalls'[c] = promptCalls[c]

\* C5: single attempt. The prompt is called at most once per invocation,
\* exactly once for a valid input, and never again after it failed.
C5_SingleAttempt == []C5_AtMostOnce /\ [][C5_NoRetryStep]_vars

C5_Witness ==
    \E c \in Calls :
        /\ Done(c)
        /\ LongEnough(c)
        /\ Raised(c)
        /\ promptCalls[c] = 1

\* The error the catch clause received, for the two failure modes of the prompt.
UpstreamError(c) ==
    IF Raised(c) THEN response[c].error ELSE NewError(NoResponseMessage)

C7_ResultOrErrorNeverBoth ==
    \A c \in Calls :
        /\ ~Done(c) => (result[c] = None /\ thrown[c] = None)
        /\ Done(c) => ((result[c] # None) <=> (thrown[c] = None))
        /\ result[c] # None =>
               /\ LongEnough(c)
               /\ ReturnedObject(c)
               /\ result[c] = response[c].output
        /\ (Done(c) /\ (TooShort(c) \/ ReturnedNull(c) \/ Raised(c))) =>
               (thrown[c] # None /\ result[c] = None)

C7_Witness ==
    \E c, d \in Calls :
        /\ Done(c) /\ result[c] = CleanOutput /\ thrown[c] = None
        /\ Done(d) /\ ReturnedNull(d) /\ result[d] = None /\ thrown[d] # None

\* The outcome <<result, error>> of an invocation that runs alone on the
\* input `in` and whose prompt call, if made, settles as `resp`.
AloneOutcome(in, resp) ==
    IF Len(in.pdfTextContent) < MinTextLength THEN <<None, SchemaError("input")>>
    ELSE IF resp.kind = "rejected"
         THEN <<None, NewError(FailedPrefix \o MessageOrDefault(resp.error))>>
    ELSE IF resp.output = Null
         THEN <<None, NewError(FailedPrefix \o NoResponseMessage)>>
    ELSE IF MatchesOutputSchema(resp.output) THEN <<resp.output, None>>
    ELSE <<None, SchemaError("output")>>

\* C8 (state part): the outcome of every completed invocation is the outcome of
\* a lone run on its own input and its own prompt response, so two invocations
\* with the same input and response end the same way whatever else is in flight.
C8_OutcomeOwn ==
    \A c \in Calls :
        Done(c) =>
            /\ <<result[c], thrown[c]>> = AloneOutcome(input[c], response[c])
            /\ \A d \in Calls :
                   (Done(d) /\ input[d] = input[c] /\ response[d] = response[c]) =>
                       (result[d] = result[c] /\ thrown[d] = thrown[c])

\* C8 (step part): a step that does not advance invocation c leaves all of
\* c's data as it was.
C8_StepOwn ==
    \A c \in Calls :
        pc'[c] = pc[c] =>
            /\ input'[c] = input[c]
            /\ promptCalls'[c] = promptCalls[c]
            /\ response'[c] = response[c]
            /\ caught'[c] = caught[c]
            /\ returned'[c] = returned[c]
            /\ result'[c] = result[c]
            /\ thrown'[c] = thrown[c]
            /\ log'[c] = log[c]

\* C8: invocations in flight together are independent. Each one's outcome
\* depends on its own input and its own prompt response only and equals that
\* of a lone run, and no step of one invocation touches another's data.
C8_Independent == []C8_OutcomeOwn /\ [][C8_StepOwn]_vars

C8_Witness ==
    \E c, d \in Calls :
        /\ c # d
        /\ Done(c) /\ response[c] = Resolved(UrgentOutput) /\ result[c] = UrgentOutput
        /\ pc[d] = "resumed" /\ response[d] = Resolved(Null)

\* C9: the prompt text rendered for a document text of at least 100 characters
\* holds that text exactly as given, on the lines between the line
\* '--- START DOCUMENT TEXT ---' and the line '--- END DOCUMENT TEXT ---',
\* and nothing but the text is added to the template.
C9_TextVerbatimBetweenMarkers ==
    rendered # <<>> =>
        /\ Len(text) >= MinTextLength
        /\ LET framed == <<"\n">> \o StartMarker \o <<"\n">> \o text
                         \o <<"\n">> \o EndMarker \o <<"\n">>
           IN  OccursAt(rendered, framed, Len(TemplateIntro))
        /\ Len(rendered) = Len(TemplateIntro) + Len(StartMarker) + Len(EndMarker)
                           + Len(TemplateInstructions) + Len(text) + 2

C9_Witness ==
    /\ rendered # <<>>
    /\ Len(text) > MinTextLength
    /\ SubSeq(text, 1, 2) = <<"&", "\n">>
    /\ Contains(rendered, <<"\n">> \o text \o <<"\n">>)

====
